---- MODULE Spec2Model ----
(***************************************************************************)
(* Model of cli/main.rs: the command dispatcher of main() and the          *)
(* pipelines eval_command, xeval_command, run_repl, run_script,            *)
(* fetch_or_info_command and types_command, with the shared failure path   *)
(* print_err_and_exit / js_check.                                          *)
(*                                                                         *)
(* The process is one sequential thread of control: pc is <<function,      *)
(* label>>, the function of main.rs being executed and the statement it    *)
(* is at.  Results of the collaborators (the engine, the module loader,    *)
(* the metadata lookup) are chosen nondeterministically at the call.       *)
(***************************************************************************)
EXTENDS Integers, Sequences, FiniteSets, TLC

VARIABLES
  pc,             \* <<function, label>>: the statement being executed
  flags,          \* DenoFlags returned by flags_from_vec
  subcommand,     \* DenoSubcommand returned by flags_from_vec
  argv,           \* Vec<String> returned by flags_from_vec
  loggerInstalls, \* number of successful log::set_logger calls
  maxLevel,       \* log::max_level()
  v8Forwarded,    \* v8_set_flags has been called
  contexts,       \* number of (Worker, ThreadSafeState) pairs created
  submitted,      \* number of futures handed to tokio_util::run
  dispatched,     \* the command functions main's match has called
  print_info,     \* parameter of fetch_or_info_command
  main_module,    \* local of run_script / fetch_or_info_command
  source,         \* js_source / xeval_source built by format! (<<>>: not built)
  xevalWrapper,   \* window._xevalWrapper inside the engine (<<>>: undefined)
  trace,          \* stages of the deferred task, with their results
  stdout,         \* lines written with println!
  stderr,         \* lines written with eprintln! by print_err_and_exit
  printErrCalls,  \* number of calls of print_err_and_exit
  exitCode,       \* process exit status (<<>>: still running)
  mapErrRuns,     \* number of runs of a map_err handler of a task
  reports,        \* calls of the progress callback made by the collaborators
  progressOut     \* what the progress callback wrote with eprint!/eprintln!

vars == <<pc, flags, subcommand, argv, loggerInstalls, maxLevel, v8Forwarded,
          contexts, submitted, dispatched, print_info, main_module, source,
          xevalWrapper, trace, stdout, stderr, printErrCalls, exitCode,
          mapErrRuns, reports, progressOut>>

\* Bounds of the model.
MaxArgs == 2   \* longest argv, the program name included
MaxDeps == 2   \* longest list of transitive dependencies in the metadata
MaxReports == 3 \* most calls of the progress callback
MaxTotal == 1  \* largest total of a progress report

None == "None"
Ok == "Ok"

\* Option<T> as a sequence of at most one element.
Some(x) == <<x>>
NoneOpt == << >>

\* Exit status of a Rust process that ends by a panic.
PanicExit == 101

Subcommands ==
  {"Eval", "Fetch", "Info", "Repl", "Run", "Types", "Version", "Xeval"}

\* Strings that may follow the program name: module specifiers for
\* run/fetch/info, program text for eval/xeval.
ArgStrings == {"main.ts", "https://x/m.ts", "http://[:"}

ArgVecs ==
  UNION { { <<"deno">> \o t : t \in [1..n -> ArgStrings] } : n \in 0..(MaxArgs - 1) }

FlagSets ==
  [ v8_flags : {None, "--help"},
    log_debug : BOOLEAN,
    xeval_replvar : {None, "$", "line"} ]

\* flags::flags_from_vec: the (flags, subcommand, argv) triples the parser
\* produces.  eval, xeval, fetch, info and run take a required argument
\* which becomes argv[1]; xeval always sets the replacement variable.
flags_from_vec ==
  { r \in [flags : FlagSets, subcommand : Subcommands, argv : ArgVecs] :
      /\ r.subcommand \in {"Eval", "Xeval", "Fetch", "Info", "Run"}
            => Len(r.argv) >= 2
      /\ (r.subcommand = "Xeval") <=> (r.flags.xeval_replvar # None) }

\* Rust's argv[i] (zero based); argv[i] panics when i is out of range.
InRange(v, i) == i + 1 <= Len(v)
Index(v, i) == v[i + 1]

\* ThreadSafeState::main_module
state_main_module(v) == IF Len(v) <= 1 THEN None ELSE Index(v, 1)

\* worker::root_specifier_to_url: an absolute URL is kept, a relative
\* specifier is joined to the current directory, anything else is an error.
root_specifier_to_url(s) ==
  CASE s = "https://x/m.ts" -> [ok |-> TRUE, url |-> s]
    [] s = "main.ts"        -> [ok |-> TRUE, url |-> "file:///cwd/main.ts"]
    [] OTHER                -> [ok |-> FALSE, url |-> None]

\* Errors of the collaborators and their conversion into RustOrJsError.
EngineErrors == {"JSError", "DenoError"}
RustOrJsErrors == {"Rust", "Js"}

into(e) ==
  CASE e = "JSError"   -> "Js"
    [] e = "DenoError" -> "Rust"
    [] OTHER           -> e

\* RustOrJsError::to_string: the rendering names the variant.
to_string(err) == IF err = "Js" THEN "ScriptError" ELSE "HostError"

\* Logger::enabled / Logger::log for a record of the given level.
LevelRank(l) == CASE l = "Off" -> 0 [] l = "Warn" -> 2 [] l = "Debug" -> 4
\* A logger that ignores the threshold.
enabled_always(level) == TRUE

enabled(level) == LevelRank(level) <= LevelRank(maxLevel)
log(level, out) ==
  IF enabled(level) THEN Append(out, <<"log", level>>) ELSE out

Event(s, r) == [stage |-> s, res |-> r]

----------------------------------------------------------------------------
\* The shared failure path.

print_err_and_exit(err) ==
  /\ stderr' = Append(stderr, to_string(err))
  /\ printErrCalls' = printErrCalls + 1
  /\ exitCode' = Some(1)
  /\ pc' = <<"process", "exited">>

\* js_check dropping the error: the pipeline goes on after a failure.
js_check_swallow(r, next) ==
  /\ pc' = next
  /\ UNCHANGED <<stderr, printErrCalls, exitCode>>

\* js_check with the test inverted: the failure path is taken on success.
js_check_inverted(r, next) ==
  IF r = Ok
    THEN print_err_and_exit("Rust")
    ELSE /\ pc' = next
         /\ UNCHANGED <<stderr, printErrCalls, exitCode>>

\* js_check wrapping every error as a host error.
js_check_as_host(r, next) ==
  IF r # Ok
    THEN print_err_and_exit("Rust")
    ELSE /\ pc' = next
         /\ UNCHANGED <<stderr, printErrCalls, exitCode>>

\* js_check rendering the error without ending the process.
js_check_no_exit(r, next) ==
  /\ pc' = next
  /\ stderr' = IF r # Ok THEN Append(stderr, to_string(into(r))) ELSE stderr
  /\ printErrCalls' = IF r # Ok THEN printErrCalls + 1 ELSE printErrCalls
  /\ UNCHANGED exitCode

js_check(r, next) ==
  IF r # Ok
    THEN print_err_and_exit(into(r))
    ELSE /\ pc' = next
         /\ UNCHANGED <<stderr, printErrCalls, exitCode>>

\* No failure: control passes to the next statement.
goto(next) ==
  /\ pc' = next
  /\ UNCHANGED <<stderr, printErrCalls, exitCode>>

\* A panic (unwrap of None/Err, index out of range) ends the process
\* without passing through print_err_and_exit.
panic ==
  /\ pc' = <<"process", "panicked">>
  /\ exitCode' = Some(PanicExit)
  /\ UNCHANGED <<stderr, printErrCalls>>

\* create_worker_and_state
create_worker_and_state == contexts' = contexts + 1

----------------------------------------------------------------------------
Init ==
  /\ pc = <<"main", "set_logger">>
  /\ flags = [v8_flags |-> None, log_debug |-> FALSE, xeval_replvar |-> None]
  /\ subcommand = None
  /\ argv = <<>>
  /\ loggerInstalls = 0
  /\ maxLevel = "Off"
  /\ v8Forwarded = FALSE
  /\ contexts = 0
  /\ submitted = 0
  /\ dispatched = <<>>
  /\ print_info = FALSE
  /\ main_module = None
  /\ source = << >>
  /\ xevalWrapper = << >>
  /\ trace = <<>>
  /\ stdout = <<>>
  /\ stderr = <<>>
  /\ printErrCalls = 0
  /\ exitCode = NoneOpt
  /\ mapErrRuns = 0
  /\ reports = << >>
  /\ progressOut = << >>

\* main, line 306: log::set_logger(&LOGGER).unwrap()
main_set_logger ==
  /\ pc = <<"main", "set_logger">>
  /\ loggerInstalls' = loggerInstalls + 1
  /\ pc' = <<"main", "flags">>
  /\ UNCHANGED <<flags, subcommand, argv, maxLevel, v8Forwarded, contexts,
                 submitted, dispatched, print_info, main_module, source,
                 xevalWrapper, trace, stdout, stderr, printErrCalls, exitCode>>
  /\ UNCHANGED <<reports, progressOut, mapErrRuns>>

\* main, lines 307-308.  The parser runs after the logger is installed and
\* before the threshold is set (it is still the log crate's initial Off):
\* a record it may log goes through Logger::log.
main_flags ==
  /\ pc = <<"main", "flags">>
  /\ \E r \in flags_from_vec :
       /\ flags' = r.flags
       /\ subcommand' = r.subcommand
       /\ argv' = r.argv
  /\ \E logs \in BOOLEAN :
       stdout' = IF logs THEN log("Debug", stdout) ELSE stdout
  /\ pc' = <<"main", "v8_flags">>
  /\ UNCHANGED <<loggerInstalls, maxLevel, v8Forwarded, contexts,
                 submitted, dispatched, print_info, main_module, source,
                 xevalWrapper, trace, stderr, printErrCalls, exitCode>>
  /\ UNCHANGED <<reports, progressOut, mapErrRuns>>

\* main without the forwarding of the engine flags.
main_v8_flags_skip ==
  /\ pc = <<"main", "v8_flags">>
  /\ v8Forwarded' = FALSE
  /\ pc' = <<"main", "max_level">>
  /\ UNCHANGED <<flags, subcommand, argv, loggerInstalls, maxLevel, contexts,
                 submitted, dispatched, print_info, main_module, source,
                 xevalWrapper, trace, stdout, stderr, printErrCalls, exitCode>>
  /\ UNCHANGED <<reports, progressOut, mapErrRuns>>

\* main, lines 310-312
main_v8_flags ==
  /\ pc = <<"main", "v8_flags">>
  /\ v8Forwarded' = (flags.v8_flags # None)
  /\ pc' = <<"main", "max_level">>
  /\ UNCHANGED <<flags, subcommand, argv, loggerInstalls, maxLevel, contexts,
                 submitted, dispatched, print_info, main_module, source,
                 xevalWrapper, trace, stdout, stderr, printErrCalls, exitCode>>
  /\ UNCHANGED <<reports, progressOut, mapErrRuns>>

\* main, lines 314-318
main_max_level ==
  /\ pc = <<"main", "max_level">>
  /\ maxLevel' = IF flags.log_debug THEN "Debug" ELSE "Warn"
  /\ pc' = <<"main", "match">>
  /\ UNCHANGED <<flags, subcommand, argv, loggerInstalls, v8Forwarded,
                 contexts, submitted, dispatched, print_info, main_module,
                 source, xevalWrapper, trace, stdout, stderr, printErrCalls,
                 exitCode>>
  /\ UNCHANGED <<reports, progressOut, mapErrRuns>>

\* A match in which version prints and returns instead of entering run_repl.
CommandOf_version_prints(s) ==
  CASE s = "Eval"    -> "eval_command"
    [] s = "Fetch"   -> "fetch_or_info_command"
    [] s = "Info"    -> "fetch_or_info_command"
    [] s = "Repl"    -> "run_repl"
    [] s = "Run"     -> "run_script"
    [] s = "Types"   -> "types_command"
    [] s = "Version" -> "types_command"
    [] s = "Xeval"   -> "xeval_command"

\* main, lines 320-329: the command function each subcommand is matched to,
\* with the print_info argument of fetch_or_info_command.
CommandOf(s) ==
  CASE s = "Eval"    -> "eval_command"
    [] s = "Fetch"   -> "fetch_or_info_command"
    [] s = "Info"    -> "fetch_or_info_command"
    [] s = "Repl"    -> "run_repl"
    [] s = "Run"     -> "run_script"
    [] s = "Types"   -> "types_command"
    [] s = "Version" -> "run_repl"
    [] s = "Xeval"   -> "xeval_command"

main_match ==
  /\ pc = <<"main", "match">>
  /\ dispatched' = Append(dispatched, CommandOf(subcommand))
  /\ print_info' = (subcommand = "Info")
  /\ pc' = <<CommandOf(subcommand), "entry">>
  /\ UNCHANGED <<flags, subcommand, argv, loggerInstalls, maxLevel,
                 v8Forwarded, contexts, submitted, main_module, source,
                 xevalWrapper, trace, stdout, stderr, printErrCalls, exitCode>>
  /\ UNCHANGED <<reports, progressOut, mapErrRuns>>

\* main, line 330: the command function returned, main returns.
main_return ==
  /\ pc = <<"main", "return">>
  /\ exitCode' = Some(0)
  /\ pc' = <<"process", "done">>
  /\ UNCHANGED <<flags, subcommand, argv, loggerInstalls, maxLevel,
                 v8Forwarded, contexts, submitted, dispatched, print_info,
                 main_module, source, xevalWrapper, trace, stdout, stderr,
                 printErrCalls>>
  /\ UNCHANGED <<reports, progressOut, mapErrRuns>>

main ==
  \/ main_set_logger
  \/ main_flags
  \/ main_v8_flags
  \/ main_max_level
  \/ main_match
  \/ main_return

----------------------------------------------------------------------------
\* types_command building an execution context like the other commands.
types_command_with_context ==
  /\ pc = <<"types_command", "entry">>
  /\ create_worker_and_state
  /\ stdout' = Append(stdout, <<"lib.deno_runtime.d.ts">>)
  /\ pc' = <<"main", "return">>
  /\ UNCHANGED <<flags, subcommand, argv, loggerInstalls, maxLevel,
                 v8Forwarded, submitted, dispatched, print_info,
                 main_module, source, xevalWrapper, trace, stderr,
                 printErrCalls, exitCode>>
  /\ UNCHANGED <<reports, progressOut, mapErrRuns>>

\* types_command, lines 171-177
types_command ==
  /\ pc = <<"types_command", "entry">>
  /\ stdout' = Append(stdout, <<"lib.deno_runtime.d.ts">>)
  /\ pc' = <<"main", "return">>
  /\ UNCHANGED <<flags, subcommand, argv, loggerInstalls, maxLevel,
                 v8Forwarded, contexts, submitted, dispatched, print_info,
                 main_module, source, xevalWrapper, trace, stderr,
                 printErrCalls, exitCode>>
  /\ UNCHANGED <<reports, progressOut, mapErrRuns>>

----------------------------------------------------------------------------
\* Variables main() sets before the match and the command functions only read.
mainVars ==
  <<flags, subcommand, argv, loggerInstalls, maxLevel, v8Forwarded,
    dispatched, print_info>>

\* Results of Worker::execute and of polling the Worker future to completion.
EngineResults == {Ok} \cup EngineErrors

\* Results of Worker::execute_mod_async: its error is already a RustOrJsError.
LoadResults == {Ok} \cup RustOrJsErrors

\* worker.then(|result| { js_check(result); Ok(()) }).map_err(|(err, _)|
\* print_err_and_exit(err)), lines 249-255 and 267-273: js_check ends the
\* process on an error; when it returns, the closure yields Ok(()), and
\* map_err runs its handler only on an Err of the closure.
then_closure(result) == Ok

then_map_err(result, next) ==
  IF result # Ok
    THEN /\ js_check(result, next)
         /\ UNCHANGED mapErrRuns
    ELSE IF then_closure(result) # Ok
      THEN /\ mapErrRuns' = mapErrRuns + 1
           /\ print_err_and_exit(into(then_closure(result)))
      ELSE /\ goto(next)
           /\ UNCHANGED mapErrRuns

\* tokio_util::run(main_future): the lazy future is handed to the executor,
\* which polls it; `first` is the first statement of the closure.
tokio_util_run(first) ==
  /\ submitted' = submitted + 1
  /\ goto(first)

----------------------------------------------------------------------------
\* eval_command, lines 209-233

\* eval_command running the bootstrap while it builds the task.
eval_entry_eager ==
  /\ pc = <<"eval_command", "entry">>
  /\ create_worker_and_state
  /\ IF InRange(argv, 1)
       THEN /\ source' = <<[wrapper |-> "_topLevelWrapper", param |-> None,
                            body |-> Index(argv, 1)]>>
            /\ goto(<<"eval_command", "run">>)
       ELSE /\ panic
            /\ UNCHANGED source
  /\ trace' = Append(trace, Event("bootstrap", Ok))
  /\ UNCHANGED <<mainVars, submitted, main_module, xevalWrapper, stdout>>
  /\ UNCHANGED <<reports, progressOut, mapErrRuns>>

\* lines 210-220
eval_entry ==
  /\ pc = <<"eval_command", "entry">>
  /\ create_worker_and_state
  /\ IF InRange(argv, 1)
       THEN /\ source' = <<[wrapper |-> "_topLevelWrapper", param |-> None,
                            body |-> Index(argv, 1)]>>
            /\ goto(<<"eval_command", "run">>)
       ELSE /\ panic
            /\ UNCHANGED source
  /\ UNCHANGED <<mainVars, submitted, main_module, xevalWrapper, trace, stdout>>
  /\ UNCHANGED <<reports, progressOut, mapErrRuns>>

\* eval_command whose closure starts at the program text, without bootstrap.
eval_run_skip_bootstrap ==
  /\ pc = <<"eval_command", "run">>
  /\ tokio_util_run(<<"eval_command", "execute">>)
  /\ UNCHANGED <<mainVars, contexts, main_module, source, xevalWrapper,
                 trace, stdout>>
  /\ UNCHANGED <<reports, progressOut, mapErrRuns>>

\* line 232
eval_run ==
  /\ pc = <<"eval_command", "run">>
  /\ tokio_util_run(<<"eval_command", "bootstrap">>)
  /\ UNCHANGED <<mainVars, contexts, main_module, source, xevalWrapper,
                 trace, stdout>>
  /\ UNCHANGED <<reports, progressOut, mapErrRuns>>

\* line 223
eval_bootstrap ==
  /\ pc = <<"eval_command", "bootstrap">>
  /\ \E r \in EngineResults :
       /\ trace' = Append(trace, Event("bootstrap", r))
       /\ js_check(r, <<"eval_command", "execute">>)
  /\ UNCHANGED <<mainVars, contexts, submitted, main_module, source,
                 xevalWrapper, stdout>>
  /\ UNCHANGED <<reports, progressOut, mapErrRuns>>

\* eval_command handing the program text to the module loader.
eval_execute_as_module ==
  /\ pc = <<"eval_command", "execute">>
  /\ \E r \in LoadResults :
       /\ trace' = Append(trace, Event("load_mod", r))
       /\ IF r = Ok
            THEN goto(<<"eval_command", "settle">>)
            ELSE print_err_and_exit(r)
  /\ UNCHANGED <<mainVars, contexts, submitted, main_module, source,
                 xevalWrapper, stdout>>
  /\ UNCHANGED <<reports, progressOut, mapErrRuns>>

\* line 226
eval_execute ==
  /\ pc = <<"eval_command", "execute">>
  /\ \E r \in EngineResults :
       /\ trace' = Append(trace, Event("exec_src", r))
       /\ js_check(r, <<"eval_command", "settle">>)
  /\ UNCHANGED <<mainVars, contexts, submitted, main_module, source,
                 xevalWrapper, stdout>>
  /\ UNCHANGED <<reports, progressOut, mapErrRuns>>

\* lines 227-230
eval_settle ==
  /\ pc = <<"eval_command", "settle">>
  /\ \E result \in EngineResults :
       /\ trace' = Append(trace, Event("settle", result))
       /\ js_check(result, <<"main", "return">>)
  /\ UNCHANGED <<mainVars, contexts, submitted, main_module, source,
                 xevalWrapper, stdout>>
  /\ UNCHANGED <<reports, progressOut, mapErrRuns>>

eval_command ==
  \/ eval_entry
  \/ eval_run
  \/ eval_bootstrap
  \/ eval_execute
  \/ eval_settle

----------------------------------------------------------------------------
\* xeval_command, lines 235-258

\* lines 236-243
xeval_entry ==
  /\ pc = <<"xeval_command", "entry">>
  /\ IF flags.xeval_replvar = None
       THEN /\ panic
            /\ UNCHANGED <<contexts, source>>
       ELSE /\ create_worker_and_state
            /\ IF InRange(argv, 1)
                 THEN /\ source' = <<[wrapper |-> "window._xevalWrapper",
                                      param |-> flags.xeval_replvar,
                                      body |-> Index(argv, 1)]>>
                      /\ goto(<<"xeval_command", "run">>)
                 ELSE /\ panic
                      /\ UNCHANGED source
  /\ UNCHANGED <<mainVars, submitted, main_module, xevalWrapper, trace, stdout>>
  /\ UNCHANGED <<reports, progressOut, mapErrRuns>>

\* xeval_command whose closure starts at bootstrap: the wrapper is never
\* installed.
xeval_run_skip_install ==
  /\ pc = <<"xeval_command", "run">>
  /\ tokio_util_run(<<"xeval_command", "bootstrap">>)
  /\ UNCHANGED <<mainVars, contexts, main_module, source, xevalWrapper,
                 trace, stdout>>
  /\ UNCHANGED <<reports, progressOut, mapErrRuns>>

\* line 257
xeval_run ==
  /\ pc = <<"xeval_command", "run">>
  /\ tokio_util_run(<<"xeval_command", "install">>)
  /\ UNCHANGED <<mainVars, contexts, main_module, source, xevalWrapper,
                 trace, stdout>>
  /\ UNCHANGED <<reports, progressOut, mapErrRuns>>

\* xeval_command not checking the result of the wrapper installation.
xeval_install_unchecked ==
  /\ pc = <<"xeval_command", "install">>
  /\ \E r \in EngineResults :
       /\ trace' = Append(trace, Event("install_wrapper", r))
       /\ xevalWrapper' =
            IF r = Ok
              THEN <<[param |-> source[1].param, body |-> source[1].body]>>
              ELSE xevalWrapper
       /\ goto(<<"xeval_command", "bootstrap">>)
  /\ UNCHANGED <<mainVars, contexts, submitted, main_module, source, stdout>>
  /\ UNCHANGED <<reports, progressOut, mapErrRuns>>

\* line 247
xeval_install ==
  /\ pc = <<"xeval_command", "install">>
  /\ \E r \in EngineResults :
       /\ trace' = Append(trace, Event("install_wrapper", r))
       /\ xevalWrapper' =
            IF r = Ok
              THEN <<[param |-> source[1].param, body |-> source[1].body]>>
              ELSE xevalWrapper
       /\ js_check(r, <<"xeval_command", "bootstrap">>)
  /\ UNCHANGED <<mainVars, contexts, submitted, main_module, source, stdout>>
  /\ UNCHANGED <<reports, progressOut, mapErrRuns>>

\* line 248
xeval_bootstrap ==
  /\ pc = <<"xeval_command", "bootstrap">>
  /\ \E r \in EngineResults :
       /\ trace' = Append(trace, Event("bootstrap", r))
       /\ js_check(r, <<"xeval_command", "settle">>)
  /\ UNCHANGED <<mainVars, contexts, submitted, main_module, source,
                 xevalWrapper, stdout>>
  /\ UNCHANGED <<reports, progressOut, mapErrRuns>>

\* lines 249-255
xeval_settle ==
  /\ pc = <<"xeval_command", "settle">>
  /\ \E result \in EngineResults :
       /\ trace' = Append(trace, Event("settle", result))
       /\ then_map_err(result, <<"main", "return">>)
  /\ UNCHANGED <<mainVars, contexts, submitted, main_module, source,
                 xevalWrapper, stdout>>
  /\ UNCHANGED <<reports, progressOut>>

xeval_command ==
  \/ xeval_entry
  \/ xeval_run
  \/ xeval_install
  \/ xeval_bootstrap
  \/ xeval_settle

----------------------------------------------------------------------------
\* run_repl, lines 260-276

\* line 261
run_repl_entry ==
  /\ pc = <<"run_repl", "entry">>
  /\ create_worker_and_state
  /\ goto(<<"run_repl", "run">>)
  /\ UNCHANGED <<mainVars, submitted, main_module, source, xevalWrapper,
                 trace, stdout>>
  /\ UNCHANGED <<reports, progressOut, mapErrRuns>>

\* line 275
run_repl_run ==
  /\ pc = <<"run_repl", "run">>
  /\ tokio_util_run(<<"run_repl", "bootstrap">>)
  /\ UNCHANGED <<mainVars, contexts, main_module, source, xevalWrapper,
                 trace, stdout>>
  /\ UNCHANGED <<reports, progressOut, mapErrRuns>>

\* run_repl not checking the result of the bootstrap.
run_repl_bootstrap_unchecked ==
  /\ pc = <<"run_repl", "bootstrap">>
  /\ \E r \in EngineResults :
       /\ trace' = Append(trace, Event("bootstrap", r))
       /\ goto(<<"run_repl", "settle">>)
  /\ UNCHANGED <<mainVars, contexts, submitted, main_module, source,
                 xevalWrapper, stdout>>
  /\ UNCHANGED <<reports, progressOut, mapErrRuns>>

\* line 266
run_repl_bootstrap ==
  /\ pc = <<"run_repl", "bootstrap">>
  /\ \E r \in EngineResults :
       /\ trace' = Append(trace, Event("bootstrap", r))
       /\ js_check(r, <<"run_repl", "settle">>)
  /\ UNCHANGED <<mainVars, contexts, submitted, main_module, source,
                 xevalWrapper, stdout>>
  /\ UNCHANGED <<reports, progressOut, mapErrRuns>>

\* lines 267-273
run_repl_settle ==
  /\ pc = <<"run_repl", "settle">>
  /\ \E result \in EngineResults :
       /\ trace' = Append(trace, Event("settle", result))
       /\ then_map_err(result, <<"main", "return">>)
  /\ UNCHANGED <<mainVars, contexts, submitted, main_module, source,
                 xevalWrapper, stdout>>
  /\ UNCHANGED <<reports, progressOut>>

run_repl ==
  \/ run_repl_entry
  \/ run_repl_run
  \/ run_repl_bootstrap
  \/ run_repl_settle

----------------------------------------------------------------------------
\* run_script, lines 278-300

\* lines 279-281
run_script_entry ==
  /\ pc = <<"run_script", "entry">>
  /\ create_worker_and_state
  /\ IF state_main_module(argv) = None
       THEN /\ panic
            /\ UNCHANGED main_module
       ELSE /\ main_module' = state_main_module(argv)
            /\ goto(<<"run_script", "run">>)
  /\ UNCHANGED <<mainVars, submitted, source, xevalWrapper, trace, stdout>>
  /\ UNCHANGED <<reports, progressOut, mapErrRuns>>

\* line 299
run_script_run ==
  /\ pc = <<"run_script", "run">>
  /\ tokio_util_run(<<"run_script", "bootstrap">>)
  /\ UNCHANGED <<mainVars, contexts, main_module, source, xevalWrapper,
                 trace, stdout>>
  /\ UNCHANGED <<reports, progressOut, mapErrRuns>>

\* lines 285-286
run_script_bootstrap ==
  /\ pc = <<"run_script", "bootstrap">>
  /\ \E r \in EngineResults :
       /\ trace' = Append(trace, Event("bootstrap", r))
       /\ js_check(r, <<"run_script", "url">>)
       /\ stdout' = IF r = Ok THEN log("Debug", stdout) ELSE stdout
  /\ UNCHANGED <<mainVars, contexts, submitted, main_module, source,
                 xevalWrapper>>
  /\ UNCHANGED <<reports, progressOut, mapErrRuns>>

\* line 288
run_script_url ==
  /\ pc = <<"run_script", "url">>
  /\ LET main_url == root_specifier_to_url(main_module) IN
       IF main_url.ok
         THEN /\ trace' = Append(trace, Event("to_url", Ok))
              /\ goto(<<"run_script", "load">>)
         ELSE /\ trace' = Append(trace, Event("to_url", "ParseError"))
              /\ panic
  /\ UNCHANGED <<mainVars, contexts, submitted, main_module, source,
                 xevalWrapper, stdout>>
  /\ UNCHANGED <<reports, progressOut, mapErrRuns>>

\* run_script without the map_err handler: a failed load is reported but the
\* continuation is entered all the same.
run_script_load_continue ==
  /\ pc = <<"run_script", "load">>
  /\ \E r \in LoadResults :
       /\ trace' = Append(trace, Event("load_mod", r))
       /\ goto(<<"run_script", "settle">>)
  /\ UNCHANGED <<mainVars, contexts, submitted, main_module, source,
                 xevalWrapper, stdout>>
  /\ UNCHANGED <<reports, progressOut, mapErrRuns>>

\* lines 290-292 and 297: execute_mod_async(&main_url, false) resolves; its
\* error goes to map_err, its success to the and_then continuation.
run_script_load ==
  /\ pc = <<"run_script", "load">>
  /\ \E r \in LoadResults :
       /\ trace' = Append(trace, Event("load_mod", r))
       /\ IF r = Ok
            THEN goto(<<"run_script", "settle">>)
            ELSE print_err_and_exit(r)
       /\ mapErrRuns' = IF r = Ok THEN mapErrRuns ELSE mapErrRuns + 1
  /\ UNCHANGED <<mainVars, contexts, submitted, main_module, source,
                 xevalWrapper, stdout>>
  /\ UNCHANGED <<reports, progressOut>>

\* lines 293-296
run_script_settle ==
  /\ pc = <<"run_script", "settle">>
  /\ \E result \in EngineResults :
       /\ trace' = Append(trace, Event("settle", result))
       /\ js_check(result, <<"main", "return">>)
  /\ UNCHANGED <<mainVars, contexts, submitted, main_module, source,
                 xevalWrapper, stdout>>
  /\ UNCHANGED <<reports, progressOut, mapErrRuns>>

run_script ==
  \/ run_script_entry
  \/ run_script_run
  \/ run_script_bootstrap
  \/ run_script_url
  \/ run_script_load
  \/ run_script_settle

----------------------------------------------------------------------------
\* print_file_info, lines 96-142

\* Results of worker::fetch_module_meta_data_and_maybe_compile.
ModuleMetaData ==
  [ filename : {"/cache/main.ts"},
    media_type : {"TypeScript"},
    maybe_output_code_filename : {None, "/cache/main.js"},
    maybe_source_map_filename : {None, "/cache/main.js.map"},
    module_name : {"main"} ]

MetaResults ==
  {[ok |-> FALSE, err |-> "NotFound"]}
    \cup { [ok |-> TRUE, out |-> m] : m \in ModuleMetaData }

\* Results of worker.modules.deps(&out.module_name).
DepNames(n) == [i \in 1..n |-> i]
DepsResults ==
  {NoneOpt} \cup { Some([name |-> "main", deps |-> d]) :
                     d \in {NoneOpt} \cup { Some(DepNames(n)) : n \in 0..MaxDeps } }

\* The lines print_file_info writes to standard output.
FileInfoLines(maybe_out, maybe_deps) ==
  IF ~maybe_out.ok
    THEN << <<"err", maybe_out.err>> >>
    ELSE LET out == maybe_out.out IN
         << <<"local:", out.filename>>,
            <<"type:", out.media_type>> >>
         \o (IF out.maybe_output_code_filename # None
               THEN << <<"compiled:", out.maybe_output_code_filename>> >>
               ELSE << >>)
         \o (IF out.maybe_source_map_filename # None
               THEN << <<"map:", out.maybe_source_map_filename>> >>
               ELSE << >>)
         \o (IF maybe_deps # NoneOpt
               THEN LET deps == maybe_deps[1] IN
                    << <<"deps:", deps.name>> >>
                    \o (IF deps.deps # NoneOpt
                          THEN [i \in 1..Len(deps.deps[1]) |->
                                  <<"dep", deps.deps[1][i]>>]
                          ELSE << >>)
               ELSE << <<"deps:", "cannot retrieve full dependency graph">> >>)

\* print_file_info treating a failed lookup as a fatal error.
print_file_info_fatal(maybe_out, deps, next) ==
  IF ~maybe_out.ok \/ deps = NoneOpt
    THEN /\ print_err_and_exit("Rust")
         /\ UNCHANGED stdout
    ELSE /\ stdout' = stdout \o FileInfoLines(maybe_out, deps)
         /\ goto(next)

print_file_info(maybe_out, deps, next) ==
  /\ stdout' = stdout \o FileInfoLines(maybe_out, deps)
  /\ goto(next)

----------------------------------------------------------------------------
\* fetch_or_info_command, lines 179-207

\* lines 184-186
fetch_or_info_entry ==
  /\ pc = <<"fetch_or_info_command", "entry">>
  /\ create_worker_and_state
  /\ IF state_main_module(argv) = None
       THEN /\ panic
            /\ UNCHANGED main_module
       ELSE /\ main_module' = state_main_module(argv)
            /\ goto(<<"fetch_or_info_command", "run">>)
  /\ UNCHANGED <<mainVars, submitted, source, xevalWrapper, trace, stdout>>
  /\ UNCHANGED <<reports, progressOut, mapErrRuns>>

\* line 206
fetch_or_info_run ==
  /\ pc = <<"fetch_or_info_command", "run">>
  /\ tokio_util_run(<<"fetch_or_info_command", "bootstrap">>)
  /\ UNCHANGED <<mainVars, contexts, main_module, source, xevalWrapper,
                 trace, stdout>>
  /\ UNCHANGED <<reports, progressOut, mapErrRuns>>

\* lines 189-190
fetch_or_info_bootstrap ==
  /\ pc = <<"fetch_or_info_command", "bootstrap">>
  /\ \E r \in EngineResults :
       /\ trace' = Append(trace, Event("bootstrap", r))
       /\ js_check(r, <<"fetch_or_info_command", "url">>)
       /\ stdout' = IF r = Ok THEN log("Debug", stdout) ELSE stdout
  /\ UNCHANGED <<mainVars, contexts, submitted, main_module, source,
                 xevalWrapper>>
  /\ UNCHANGED <<reports, progressOut, mapErrRuns>>

\* line 192
fetch_or_info_url ==
  /\ pc = <<"fetch_or_info_command", "url">>
  /\ LET main_url == root_specifier_to_url(main_module) IN
       IF main_url.ok
         THEN /\ trace' = Append(trace, Event("to_url", Ok))
              /\ goto(<<"fetch_or_info_command", "load">>)
         ELSE /\ trace' = Append(trace, Event("to_url", "ParseError"))
              /\ panic
  /\ UNCHANGED <<mainVars, contexts, submitted, main_module, source,
                 xevalWrapper, stdout>>
  /\ UNCHANGED <<reports, progressOut, mapErrRuns>>

\* fetch_or_info_command ignoring its print_info argument.
fetch_or_info_load_always_info ==
  /\ pc = <<"fetch_or_info_command", "load">>
  /\ \E r \in LoadResults :
       /\ trace' = Append(trace, Event("load_mod", r))
       /\ IF r = Ok
            THEN goto(<<"fetch_or_info_command", "info">>)
            ELSE print_err_and_exit(r)
       /\ mapErrRuns' = IF r = Ok THEN mapErrRuns ELSE mapErrRuns + 1
  /\ UNCHANGED <<mainVars, contexts, submitted, main_module, source,
                 xevalWrapper, stdout>>
  /\ UNCHANGED <<reports, progressOut>>

\* lines 194-197 and 204: execute_mod_async(&main_url, true) resolves.
fetch_or_info_load ==
  /\ pc = <<"fetch_or_info_command", "load">>
  /\ \E r \in LoadResults :
       /\ trace' = Append(trace, Event("load_mod", r))
       /\ IF r = Ok
            THEN goto(IF print_info
                        THEN <<"fetch_or_info_command", "info">>
                        ELSE <<"fetch_or_info_command", "settle">>)
            ELSE print_err_and_exit(r)
       /\ mapErrRuns' = IF r = Ok THEN mapErrRuns ELSE mapErrRuns + 1
  /\ UNCHANGED <<mainVars, contexts, submitted, main_module, source,
                 xevalWrapper, stdout>>
  /\ UNCHANGED <<reports, progressOut>>

\* line 198
fetch_or_info_info ==
  /\ pc = <<"fetch_or_info_command", "info">>
  /\ \E maybe_out \in MetaResults, deps \in DepsResults :
       /\ trace' = Append(trace,
             Event("print_info",
                   IF ~maybe_out.ok THEN "MetaErr"
                   ELSE IF deps = NoneOpt THEN "NoGraph" ELSE Ok))
       /\ print_file_info(maybe_out, deps, <<"fetch_or_info_command", "settle">>)
  /\ UNCHANGED <<mainVars, contexts, submitted, main_module, source,
                 xevalWrapper>>
  /\ UNCHANGED <<reports, progressOut, mapErrRuns>>

\* lines 200-203
fetch_or_info_settle ==
  /\ pc = <<"fetch_or_info_command", "settle">>
  /\ \E result \in EngineResults :
       /\ trace' = Append(trace, Event("settle", result))
       /\ js_check(result, <<"main", "return">>)
  /\ UNCHANGED <<mainVars, contexts, submitted, main_module, source,
                 xevalWrapper, stdout>>
  /\ UNCHANGED <<reports, progressOut, mapErrRuns>>

fetch_or_info_command ==
  \/ fetch_or_info_entry
  \/ fetch_or_info_run
  \/ fetch_or_info_bootstrap
  \/ fetch_or_info_url
  \/ fetch_or_info_load
  \/ fetch_or_info_info
  \/ fetch_or_info_settle

----------------------------------------------------------------------------
Next ==
  \/ main
  \/ types_command
  \/ eval_command
  \/ xeval_command
  \/ run_repl
  \/ run_script
  \/ fetch_or_info_command

Spec == Init /\ [][Next]_vars

----------------------------------------------------------------------------
\* The progress sink registered by create_worker_and_state, lines 148-160.

\* Arguments the collaborators (compiler, fetcher) call the sink with;
\* completed <= total is not enforced.
ProgressReports ==
  [done : BOOLEAN, completed : 0..MaxTotal, total : 0..MaxTotal,
   msg : {"main.ts"}]

\* The sink printing the newline on every terminal report.
progress_callback_always_newline(done, completed, total, msg) ==
  IF ~done
    THEN << <<"status", completed, total, msg>>, <<"clear">> >>
    ELSE << <<"newline">> >>

\* The closure of lines 149-160: what one call writes to the diagnostic
\* stream: eprint!("\r[{}/{}] {}") and eprint!("\x1B[K"), or eprintln!().
progress_callback(done, completed, total, msg) ==
  IF ~done
    THEN << <<"status", completed, total, msg>>, <<"clear">> >>
    ELSE IF done /\ total > 0
      THEN << <<"newline">> >>
      ELSE << >>

\* A collaborator reports progress while the task is suspended in
\* execute_mod_async.
progress_report ==
  /\ contexts = 1
  /\ pc \in {<<"run_script", "load">>, <<"fetch_or_info_command", "load">>}
  /\ Len(reports) < MaxReports
  /\ \E r \in ProgressReports :
       /\ reports' = Append(reports, r)
       /\ progressOut' =
            progressOut \o progress_callback(r.done, r.completed, r.total, r.msg)
  /\ UNCHANGED <<pc, mainVars, contexts, submitted, main_module, source,
                 xevalWrapper, trace, stdout, stderr, printErrCalls, exitCode,
                 mapErrRuns>>

\* The run pipeline suspended in execute_mod_async(&main_url, false), the sink
\* registered and not called yet (a state Spec reaches).
InitProgress ==
  /\ pc = <<"run_script", "load">>
  /\ flags = [v8_flags |-> None, log_debug |-> FALSE, xeval_replvar |-> None]
  /\ subcommand = "Run"
  /\ argv = <<"deno", "main.ts">>
  /\ loggerInstalls = 1
  /\ maxLevel = "Warn"
  /\ v8Forwarded = FALSE
  /\ contexts = 1
  /\ submitted = 1
  /\ dispatched = <<"run_script">>
  /\ print_info = FALSE
  /\ main_module = "main.ts"
  /\ source = << >>
  /\ xevalWrapper = << >>
  /\ trace = <<Event("bootstrap", Ok), Event("to_url", Ok)>>
  /\ stdout = << >>
  /\ stderr = << >>
  /\ printErrCalls = 0
  /\ exitCode = NoneOpt
  /\ mapErrRuns = 0
  /\ reports = << >>
  /\ progressOut = << >>

SpecProgress == InitProgress /\ [][progress_report]_vars
----------------------------------------------------------------------------
\* Vocabulary of the properties.

Exited   == pc = <<"process", "exited">>
Panicked == pc = <<"process", "panicked">>
Done     == pc = <<"process", "done">>
Terminal == pc[1] = "process"

Stages(t) == [i \in 1..Len(t) |-> t[i].stage]
Occurred(stage) == \E i \in 1..Len(trace) : trace[i].stage = stage
Last(t) == t[Len(t)]

\* Stages in which the engine itself is called.
EngineStages ==
  {"install_wrapper", "bootstrap", "exec_src", "load_mod", "settle"}

EngineFailure(e) == e.stage \in EngineStages /\ e.res # Ok
EngineFailed == \E i \in 1..Len(trace) : EngineFailure(trace[i])

\* A stage that reported an error: an engine failure or a failed conversion
\* of the main module into a URL.  (print_info never reports one.)
StageError(e) == e.stage # "print_info" /\ e.res # Ok
NoStageError == \A i \in 1..Len(trace) : ~StageError(trace[i])

----------------------------------------------------------------------------
\* C1: in every pipeline variant, once the engine has reported a failure at
\* any stage (wrapper installation, bootstrap, module load, execution of
\* the program text, settlement), print_err_and_exit has been called: the
\* error is rendered exactly once and the process has terminated with
\* status 1, never going on and never with status 0.
C1_EngineFailureExits ==
  EngineFailed =>
    /\ Exited
    /\ exitCode = Some(1)
    /\ printErrCalls = 1
    /\ Len(stderr) = 1
    /\ EngineFailure(Last(trace))
    /\ stderr[1] = to_string(into(Last(trace).res))

C1_Witness ==
  /\ subcommand = "Run"
  /\ Stages(trace) = <<"bootstrap", "to_url", "load_mod", "settle">>
  /\ Last(trace).res = "JSError"
  /\ Exited
  /\ exitCode = Some(1)

\* C2 (as claimed): every failure that ends a pipeline goes through
\* print_err_and_exit with status 1; the process never ends by a panic.
C2_NoRawFailure ==
  (Terminal /\ ~Done) => (Exited /\ printErrCalls = 1 /\ exitCode = Some(1))

\* C3: as long as no stage of the selected pipeline reports an error,
\* print_err_and_exit is not called and nothing is rendered; and when the
\* process ends, it ends by main returning, with exit code 0.
C3_SuccessIsSilent ==
  NoStageError =>
    /\ printErrCalls = 0
    /\ stderr = << >>
    /\ exitCode \in {NoneOpt, Some(0)}
    /\ Terminal => (Done /\ exitCode = Some(0))

C3_Witness ==
  /\ Done
  /\ exitCode = Some(0)
  /\ subcommand = "Info"
  /\ Stages(trace) = <<"bootstrap", "to_url", "load_mod", "print_info", "settle">>
  /\ NoStageError
  /\ stderr = << >>

\* Phase of a stage in the common shape of the pipeline: bootstrap (1),
\* program-specific preparation (2), execution (3), settlement (4).
Phase(stage) ==
  CASE stage = "bootstrap"       -> 1
    [] stage = "install_wrapper" -> 2
    [] stage = "to_url"          -> 2
    [] stage = "exec_src"        -> 3
    [] stage = "load_mod"        -> 3
    [] stage = "print_info"      -> 3
    [] stage = "settle"          -> 4

\* Phase of a stage in the xeval pipeline, where the wrapper is installed
\* first.
XevalPhase(stage) ==
  CASE stage = "install_wrapper" -> 1
    [] stage = "bootstrap"       -> 2
    [] stage = "settle"          -> 4
    [] OTHER                     -> 0

Completed(e) == e.res = Ok \/ e.stage = "print_info"

\* The trace starts with the phase-1 stage, phases never go back, no stage
\* occurs twice, and a stage starts only when all earlier ones succeeded.
InOrder(t, ph(_)) ==
  /\ t # << >> => ph(t[1].stage) = 1
  /\ \A j \in 1..Len(t) : \A i \in 1..(j - 1) :
       /\ ph(t[i].stage) <= ph(t[j].stage)
       /\ t[i].stage # t[j].stage
       /\ Completed(t[i])

\* C4 (as claimed): in every pipeline variant bootstrap precedes
\* preparation, which precedes execution, which precedes settlement.
C4_FixedOrder == InOrder(trace, Phase)

\* C4 (amended): the order bootstrap, preparation, execution, settlement
\* holds in every variant but xeval; in xeval the wrapper installation
\* comes first, then bootstrap, then settlement.  In all variants a stage
\* starts only after the earlier ones completed successfully.
C4_OrderExceptXeval ==
  IF subcommand = "Xeval"
    THEN InOrder(trace, XevalPhase)
    ELSE InOrder(trace, Phase)

C4_Witness ==
  /\ subcommand = "Xeval"
  /\ Stages(trace) = <<"install_wrapper", "bootstrap", "settle">>
  /\ Done

C4_WitnessEval ==
  /\ subcommand = "Eval"
  /\ Stages(trace) = <<"bootstrap", "exec_src", "settle">>
  /\ Done

\* C5: in the xeval pipeline, in every state in which bootstrap has
\* started (or is about to be executed by the task), window._xevalWrapper
\* is installed, with the configured replacement variable as parameter and
\* the program text as body, and its installation precedes bootstrap.
C5_WrapperBeforeBootstrap ==
  (subcommand = "Xeval"
     /\ (Occurred("bootstrap") \/ pc = <<"xeval_command", "bootstrap">>)) =>
    /\ xevalWrapper = <<[param |-> flags.xeval_replvar, body |-> Index(argv, 1)]>>
    /\ trace[1] = Event("install_wrapper", Ok)

C5_Witness ==
  /\ subcommand = "Xeval"
  /\ Occurred("bootstrap")
  /\ flags.xeval_replvar = "line"
  /\ xevalWrapper # << >>

\* C6: the dispatcher calls one command function, once; types_command
\* creates no execution context, submits no task and runs no stage; every
\* other command function creates exactly one execution context.
C6_OnePipelineOneContext ==
  /\ Len(dispatched) <= 1
  /\ pc[1] \notin {"main", "process"} => dispatched = <<pc[1]>>
  /\ (Terminal \/ pc = <<"main", "return">>) => Len(dispatched) = 1
  /\ contexts <= 1
  /\ subcommand = "Types" =>
       contexts = 0 /\ submitted = 0 /\ trace = << >>
  /\ (dispatched # << >> /\ subcommand # "Types" /\ pc[2] # "entry") =>
       contexts = 1

C6_Witness ==
  /\ subcommand = "Types"
  /\ Done
  /\ contexts = 0
  /\ dispatched = <<"types_command">>

C6_WitnessContext ==
  /\ subcommand = "Version"
  /\ Done
  /\ contexts = 1

C8_NoModuleLoading ==
  subcommand \in {"Eval", "Xeval"} =>
    /\ ~Occurred("to_url")
    /\ ~Occurred("load_mod")
    /\ pc[1] \notin {"run_script", "fetch_or_info_command"}
    /\ main_module = None

C8_Witness ==
  /\ subcommand = "Eval"
  /\ Occurred("exec_src")
  /\ source # << >>
  /\ source[1].body = "https://x/m.ts"

\* C9: in the info pipeline a failed metadata lookup or an unavailable
\* dependency graph only adds a line to standard output: print_err_and_exit
\* is not called, the pipeline is at settlement next, and when settlement
\* succeeds the exit code is 0.
SoftFailure(e) == e.stage = "print_info" /\ e.res \in {"MetaErr", "NoGraph"}

C9_InfoFailureIsSoft ==
  (subcommand = "Info" /\ trace # << >>) =>
    /\ SoftFailure(Last(trace)) =>
         /\ pc = <<"fetch_or_info_command", "settle">>
         /\ printErrCalls = 0
         /\ stderr = << >>
         /\ exitCode = NoneOpt
         /\ stdout # << >>
         /\ Last(stdout)[1] = (IF Last(trace).res = "MetaErr"
                                 THEN "err" ELSE "deps:")
    /\ ((\E i \in 1..Len(trace) : SoftFailure(trace[i]))
          /\ Last(trace) = Event("settle", Ok) /\ Terminal) =>
         (Done /\ exitCode = Some(0) /\ printErrCalls = 0)

C9_Witness ==
  /\ subcommand = "Info"
  /\ \E i \in 1..Len(trace) : trace[i] = Event("print_info", "MetaErr")
  /\ Done
  /\ exitCode = Some(0)

C9_WitnessNoGraph ==
  /\ subcommand = "Info"
  /\ \E i \in 1..Len(trace) : trace[i] = Event("print_info", "NoGraph")
  /\ Done

\* Lines of standard output written by print_file_info.
InfoLines == SelectSeq(stdout, LAMBDA l : l[1] # "log")
IsPrefix(a, b) == Len(a) <= Len(b) /\ \A i \in 1..Len(a) : a[i] = b[i]
NotPrintInfo(e) == e.stage # "print_info"

\* C10: metadata is rendered only by info, right after the main module
\* loaded successfully and before settlement; in info settlement is
\* awaited only after the rendering; without the rendering step the info
\* pipeline is the fetch pipeline; when the load fails, and in fetch,
\* nothing is rendered.
C10_InfoIsFetchPlusOne ==
  subcommand \in {"Fetch", "Info"} =>
    /\ \A j \in 1..Len(trace) :
         /\ trace[j].stage = "print_info" =>
              /\ subcommand = "Info"
              /\ j > 1
              /\ trace[j - 1] = Event("load_mod", Ok)
              /\ \A i \in 1..j : trace[i].stage # "settle"
         /\ (trace[j].stage = "settle" /\ subcommand = "Info") =>
              (j > 1 /\ trace[j - 1].stage = "print_info")
    /\ IsPrefix(Stages(SelectSeq(trace, NotPrintInfo)),
                <<"bootstrap", "to_url", "load_mod", "settle">>)
    /\ (InfoLines # << >>) <=> Occurred("print_info")
    /\ (\E i \in 1..Len(trace) :
          trace[i].stage = "load_mod" /\ trace[i].res # Ok) => InfoLines = << >>
    /\ subcommand = "Fetch" => InfoLines = << >>

C10_Witness ==
  /\ subcommand = "Info"
  /\ Stages(trace) = <<"bootstrap", "to_url", "load_mod", "print_info", "settle">>
  /\ InfoLines # << >>

C10_WitnessLoadFails ==
  /\ subcommand = "Info"
  /\ trace # << >>
  /\ Last(trace).stage = "load_mod"
  /\ Last(trace).res # Ok
  /\ Exited
NewLines(out) == Len(SelectSeq(out, LAMBDA c : c[1] = "newline"))
Terminals(rs) == Len(SelectSeq(rs, LAMBDA r : r.done /\ r.total > 0))

\* C11: a single report with done = true and total = 0 prints nothing; one
\* or more non-terminal reports followed by one terminal report with
\* total > 0 print exactly one newline, which comes right after the status
\* line (and clear-to-end-of-line) of the last non-terminal report; a
\* non-terminal report never prints a newline: the newlines printed are as
\* many as the terminal reports with total > 0.
C11_ProgressNewline ==
  /\ (Len(reports) = 1 /\ reports[1].done /\ reports[1].total = 0) =>
       progressOut = << >>
  /\ (/\ Len(reports) >= 2
      /\ \A i \in 1..(Len(reports) - 1) : ~reports[i].done
      /\ Last(reports).done
      /\ Last(reports).total > 0) =>
       LET n == Len(progressOut)
           r == reports[Len(reports) - 1] IN
         /\ n = 2 * (Len(reports) - 1) + 1
         /\ NewLines(progressOut) = 1
         /\ progressOut[n] = <<"newline">>
         /\ progressOut[n - 1] = <<"clear">>
         /\ progressOut[n - 2] = <<"status", r.completed, r.total, r.msg>>
  /\ NewLines(progressOut) = Terminals(reports)

C11_Witness ==
  /\ Len(reports) = 3
  /\ ~reports[1].done
  /\ ~reports[2].done
  /\ reports[3].done
  /\ reports[3].total > 0
  /\ NewLines(progressOut) = 1

C11_WitnessSilent ==
  /\ Len(reports) = 1
  /\ reports[1].done
  /\ reports[1].total = 0
  /\ progressOut = << >>
\* C12: in the eval pipeline, when the program text throws (the engine
\* reports a JSError while executing the text or at settlement), the
\* process exits with status 1 and the one rendering is a ScriptError, not
\* a HostError.
Throws(e) == e.stage \in {"exec_src", "settle"} /\ e.res = "JSError"

C12_EvalThrowIsScriptError ==
  (subcommand = "Eval" /\ \E i \in 1..Len(trace) : Throws(trace[i])) =>
    /\ Throws(Last(trace))
    /\ Exited
    /\ exitCode = Some(1)
    /\ stderr = <<"ScriptError">>

C12_Witness ==
  /\ subcommand = "Eval"
  /\ Stages(trace) = <<"bootstrap", "exec_src">>
  /\ Last(trace).res = "JSError"
  /\ stderr = <<"ScriptError">>

\* C13: version and repl have the same control flow: both enter run_repl
\* and nothing else, build one execution context, submit one task, run the
\* bootstrap and then settlement only, print nothing themselves, and end
\* with exit code 0 when both stages succeed and 1 when one fails.
C13_VersionIsRepl ==
  subcommand \in {"Repl", "Version"} =>
    /\ pc[1] \in {"main", "run_repl", "process"}
    /\ dispatched \in {<< >>, <<"run_repl">>}
    /\ IsPrefix(Stages(trace), <<"bootstrap", "settle">>)
    /\ contexts <= 1
    /\ submitted <= 1
    /\ stdout = << >>
    /\ ~Panicked
    /\ Done =>
         /\ trace = <<Event("bootstrap", Ok), Event("settle", Ok)>>
         /\ contexts = 1
         /\ submitted = 1
         /\ exitCode = Some(0)
    /\ Exited =>
         /\ EngineFailure(Last(trace))
         /\ contexts = 1
         /\ submitted = 1
         /\ exitCode = Some(1)

C13_Witness ==
  /\ subcommand = "Version"
  /\ Done
  /\ dispatched = <<"run_repl">>
  /\ Stages(trace) = <<"bootstrap", "settle">>

C13_WitnessRepl ==
  /\ subcommand = "Repl"
  /\ Done
  /\ dispatched = <<"run_repl">>
  /\ Stages(trace) = <<"bootstrap", "settle">>

\* C14: in every pipeline variant a failed bootstrap is the last stage of
\* the invocation: print_err_and_exit was called once with the translated
\* error, the process exited with status 1, no metadata was printed, and
\* the bootstrap is executed at most once.
C14_BootstrapFailureIsFatal ==
  /\ Cardinality({i \in 1..Len(trace) : trace[i].stage = "bootstrap"}) <= 1
  /\ \A i \in 1..Len(trace) :
       (trace[i].stage = "bootstrap" /\ trace[i].res # Ok) =>
         /\ i = Len(trace)
         /\ Exited
         /\ exitCode = Some(1)
         /\ printErrCalls = 1
         /\ stderr = <<to_string(into(trace[i].res))>>
         /\ InfoLines = << >>

C14_Witness ==
  /\ subcommand = "Repl"
  /\ trace = <<Event("bootstrap", "JSError")>>
  /\ Exited

\* C15: a command submits at most one task to the executor, every run-like
\* command that returns has submitted exactly one, and nothing is executed
\* in the engine while the task is built: no stage has run and no wrapper
\* is installed before the task is submitted.
C15_OneDeferredTask ==
  /\ submitted <= 1
  /\ (trace # << >> \/ xevalWrapper # << >>) => submitted = 1
  /\ (pc[1] \notin {"main", "process"} /\ pc[2] \in {"entry", "run"}) =>
       (submitted = 0 /\ trace = << >>)
  /\ (Done /\ subcommand # "Types") => submitted = 1
  /\ (Exited \/ Panicked) => submitted <= 1

C15_Witness ==
  /\ subcommand = "Eval"
  /\ submitted = 1
  /\ Occurred("exec_src")

C15_WitnessBuilt ==
  /\ pc = <<"eval_command", "run">>
  /\ source # << >>
  /\ submitted = 0

\* Records written by the logger.
LogLines == SelectSeq(stdout, LAMBDA l : l[1] = "log")

\* C16: the logger is installed once, before the arguments are parsed,
\* before the dispatch and before any pipeline; a log record is written
\* only after the installation and after the threshold was set from the
\* debug flag.
C16_LoggerInstalledFirst ==
  /\ loggerInstalls <= 1
  /\ pc # <<"main", "set_logger">> => loggerInstalls = 1
  /\ (dispatched # << >> \/ contexts > 0 \/ trace # << >>) =>
       (loggerInstalls = 1
          /\ maxLevel = (IF flags.log_debug THEN "Debug" ELSE "Warn"))
  /\ LogLines # << >> =>
       (loggerInstalls = 1 /\ maxLevel = "Debug" /\ flags.log_debug
          /\ dispatched # << >>)

C16_Witness ==
  /\ subcommand = "Run"
  /\ LogLines # << >>
  /\ loggerInstalls = 1

\* C17: when the parsed flags carry engine flags, they are forwarded with
\* v8_set_flags before the dispatch and before any execution context is
\* created, whatever the subcommand.
C17_EngineFlagsFirst ==
  (flags.v8_flags # None /\ ~v8Forwarded) =>
    /\ contexts = 0
    /\ dispatched = << >>
    /\ pc \in {<<"main", "flags">>, <<"main", "v8_flags">>}

C17_Witness ==
  /\ flags.v8_flags # None
  /\ v8Forwarded
  /\ contexts = 1
  /\ subcommand = "Xeval"
RunLike == subcommand \in (Subcommands \ {"Types"})

\* C18 (as claimed): a run-like command whose collaborators all return ends
\* with exit code 0 or 1, and it ends before settlement only through the
\* failure path.
C18_EndsWithZeroOrOne ==
  (Terminal /\ RunLike) =>
    /\ exitCode \in {Some(0), Some(1)}
    /\ ~Occurred("settle") => Exited

\* C19: print_err_and_exit is entered at most once and is terminal: once
\* it was entered the process has exited with status 1 after one rendering
\* and no step follows; in repl, version and xeval the map_err handler
\* attached after the settlement continuation never runs.
C19_FailurePathOnceAndLast ==
  /\ [](/\ printErrCalls <= 1
        /\ printErrCalls = 1 =>
             (Exited /\ exitCode = Some(1) /\ Len(stderr) = 1)
        /\ subcommand \in {"Repl", "Version", "Xeval"} => mapErrRuns = 0
        /\ mapErrRuns <= printErrCalls)
  /\ [][printErrCalls = 0 /\ ~Terminal]_vars

C19_Witness ==
  /\ subcommand = "Xeval"
  /\ Stages(trace) = <<"install_wrapper", "bootstrap", "settle">>
  /\ Last(trace).res = "DenoError"
  /\ printErrCalls = 1
  /\ mapErrRuns = 0
  /\ Exited

\* C20: in the xeval pipeline, when the installation of the wrapper fails,
\* the process exits with status 1 after one rendering, the wrapper is not
\* installed and the bootstrap is never executed.
C20_InstallFailureStops ==
  (subcommand = "Xeval"
     /\ \E i \in 1..Len(trace) :
          trace[i].stage = "install_wrapper" /\ trace[i].res # Ok) =>
    /\ Len(trace) = 1
    /\ ~Occurred("bootstrap")
    /\ xevalWrapper = << >>
    /\ Exited
    /\ exitCode = Some(1)
    /\ printErrCalls = 1

C20_Witness ==
  /\ subcommand = "Xeval"
  /\ trace = <<Event("install_wrapper", "JSError")>>
  /\ Exited
  /\ exitCode = Some(1)
====
